---- MODULE Spec2Model ----
(***************************************************************************)
(* Model of the snapshot PV provisioner (snapshot-pv-provisioner.go) and   *)
(* of the hostPath volume plugin it dispatches to.  The provisioner's      *)
(* source file holds two revisions of the program; the model is of the     *)
(* later one (the CRD client, lines 258-559), the one the plugin registry  *)
(* with three cloud providers and the deleting Delete belong to.           *)
(*                                                                         *)
(* Each provisioner process is one snapshotProvisioner with its own        *)
(* identity and its own process-global volumePlugins map.  The record      *)
(* store (VolumeSnapshot, VolumeSnapshotData and PersistentVolume objects  *)
(* of the API server) is shared.  A call of Provision or Delete is one     *)
(* atomic step; what the call read, which plugin methods it invoked and    *)
(* what it returned is kept in `last`.  A call that panics returns         *)
(* nothing (last.panicked); the process takes further calls only because   *)
(* the caller recovered the panic or its supervisor started it again with  *)
(* the same flags.                                                         *)
(***************************************************************************)
EXTENDS Naturals, Sequences, FiniteSets, TLC

VARIABLES
    snapshots,          \* VolumeSnapshot objects of the API server, by name
    snapshotDatas,      \* VolumeSnapshotData objects, by name
    persistentVolumes,  \* PersistentVolume objects the API server serves, by name
    volumePlugins,      \* per process: the tags registered in volumePlugins
    provisioned,        \* PVs returned by Provision so far, with the process
    last,               \* the most recent call: input, reads, plugin calls, result
    cloudProvider,      \* per process: the value of the --cloudprovider flag
    cloudInit,          \* per process: how cloudprovider.InitCloudProvider ended
    pc,                 \* per process: where main is
    dirs,               \* the host's directories: path |-> the tree below it
    files,              \* the host's archive files: path |-> the members of the archive
    issued,             \* the values uuid.NewUUID has returned
    calls,              \* per worker: the hostPath plugin call it is in
    results             \* the hostPath plugin calls that returned, in order

\* the provisioner's own state and the API server's
provVars == <<snapshots, snapshotDatas, persistentVolumes, volumePlugins,
              provisioned, last>>

\* the state of the processes' startup
mainVars == <<cloudProvider, cloudInit, pc>>

\* the host of the hostPath plugin and the calls of the plugin's methods
hostVars == <<dirs, files, issued, calls, results>>

vars == <<provVars, mainVars, hostVars>>

----------------------------------------------------------------------------
(* Bounds of the model *)

\* how many PVs the provisioners return in one behaviour
MaxVolumes == 1

\* the provisioner processes; their identities are pairwise distinct
Procs == {"A", "B"}

\* the --cloudprovider values the processes are started with
CloudProviderFlags == {"", "aws"}

\* the --cloudprovider values of the startup specification
StartupFlags == {"", "aws", "gce", "openstack"}

----------------------------------------------------------------------------
(* Program constants *)

provisionerIDAnn == "snapshotProvisionerIdentity"

\* crdclient.SnapshotPVCAnnotation
SnapshotPVCAnnotation == "snapshot.alpha.kubernetes.io/snapshot"

\* the tag hostpath.GetPluginName() returns
hostPathPluginName == "hostPath"

\* the tags of the cloud plugins: aws_ebs, gce_pd and cinder GetPluginName()
awsEbsPluginName == "aws_ebs"
gcePdPluginName == "gce-pd"
cinderPluginName == "cinder"

awsProviderName == "aws"
gceProviderName == "gce"
openstackProviderName == "openstack"

depot == "/tmp/"
restorePoint == "/restore/"

\* snapshotProvisioner.identity, set by newSnapshotProvisioner
identityShared(p) == "prov-A"
identity(p) == IF p = "A" THEN "prov-A" ELSE "prov-B"

----------------------------------------------------------------------------
(* Maps (Go map[string]string) are sets of <<key, value>> pairs *)

MapHas(m, k) == \E e \in m : e[1] = k

MapGet(m, k) == (CHOOSE e \in m : e[1] = k)[2]

\* m[k] = v for every <<k, v>> of `from`
MapMerge(m, from) == {e \in m : ~MapHas(from, e[1])} \cup from

----------------------------------------------------------------------------
(* Bounded input sets *)

SnapshotNames == {"s1"}
DataNames == {"d1"}
PVNames == {"pv1"}
UUIDs == {"u1"}

\* A source union (VolumeSnapshotDataSource, PersistentVolumeSource) is the
\* set of its populated variants, each a <<tag, locator>> pair.
HostPathArtifact == <<hostPathPluginName, "/tmp/abc.tgz">>
AwsArtifact == <<awsEbsPluginName, "snap-1">>
DataSources == {{}, {HostPathArtifact}, {AwsArtifact}, {HostPathArtifact, AwsArtifact}}

\* the API server admits a PV with exactly one source; "nfs" is one the
\* snapshot code does not support
PVSources == {{<<hostPathPluginName, "/data">>}, {<<awsEbsPluginName, "vol-0">>},
              {<<"nfs", "srv:/x">>}}

\* Spec.PersistentVolumeRef of a VolumeSnapshotData: nil, or a reference by name
PVRefs == {[isNil |-> TRUE, Name |-> ""], [isNil |-> FALSE, Name |-> ""],
           [isNil |-> FALSE, Name |-> "pv1"]}

NoSnapshot == [found |-> FALSE, SnapshotDataName |-> ""]
Snapshots == {NoSnapshot} \cup
             [found : {TRUE}, SnapshotDataName : {""} \cup DataNames]

NoSnapshotData == [found |-> FALSE, source |-> {}, PersistentVolumeRef |-> [isNil |-> TRUE, Name |-> ""]]
SnapshotDatas == {NoSnapshotData} \cup
                 [found : {TRUE}, source : DataSources, PersistentVolumeRef : PVRefs]

NoPV == [found |-> FALSE, source |-> {}]
StoredPVs == {NoPV} \cup [found : {TRUE}, source : PVSources]

ReclaimPolicies == {"Delete", "Retain"}
\* PVC.Spec of the claims: access modes and requested storage
ClaimSpecs == {[AccessModes |-> <<"ReadWriteOnce">>, Storage |-> 1],
               [AccessModes |-> <<"ReadOnlyMany", "ReadWriteMany">>, Storage |-> 2]}
ClaimAnnotations == {{}, {<<SnapshotPVCAnnotation, "s1">>}}

\* controller.VolumeOptions with its PVC
VolumeOptions ==
    {[PVName |-> "pvc-1", PersistentVolumeReclaimPolicy |-> r, Selector |-> s,
      Annotations |-> a, AccessModes |-> c.AccessModes, Storage |-> c.Storage] :
        r \in ReclaimPolicies, s \in BOOLEAN, a \in ClaimAnnotations, c \in ClaimSpecs}

NoOptions == [PVName |-> "", PersistentVolumeReclaimPolicy |-> "", Selector |-> FALSE,
              Annotations |-> {}, AccessModes |-> <<>>, Storage |-> 0]

\* v1.PersistentVolume
NoVolume == [Name |-> "", Annotations |-> {}, Labels |-> {},
             PersistentVolumeReclaimPolicy |-> "", AccessModes |-> <<>>,
             Capacity |-> 0, source |-> {}]

\* PVs that no provisioner made: they carry no identity annotation
ExternalVolumes == {[NoVolume EXCEPT !.Name = "ext", !.source = s] :
                      s \in {{}, {<<hostPathPluginName, "/data">>}, {<<awsEbsPluginName, "vol-0">>}}}

----------------------------------------------------------------------------
(* Errors.  A Go error is its message; msg names the format string and     *)
(* cause the error formatted into it ("" when there is none).              *)

NoError == [msg |-> "", cause |-> ""]
Err(m) == [msg |-> m, cause |-> ""]
Wrap(m, inner) == [msg |-> m, cause |-> IF inner = NoError THEN "<nil>" ELSE inner.msg]

ErrSelector == "claim Selector is not supported"
ErrNoAnnotation == "snapshot annotation not found on PV"
ErrGetSnapshot == "failed to retrieve VolumeSnapshot"
ErrNotBound == "VolumeSnapshot is not bound to any VolumeSnapshotData"
ErrGetSnapshotData == "failed to retrieve VolumeSnapshotData"
ErrCreatePV == "failed to create a PV from snapshot"
ErrNoPVRef == "VolumeSnapshotDataSpec is not bound to any PV"
ErrNoPVName == "The PV name is not specified in snapshotdata"
ErrGetPV == "Failed to retrieve PV from the API server"
ErrUnsupportedType == "unsupported volume type found in PV"
ErrNoPlugin == "is not supported volume for"
ErrNoIdentity == "identity annotation not found on PV"
IgnoredError == "identity annotation on PV does not match ours"
ErrHostPathSpec == "failed to retrieve Snapshot spec"
ErrHostPathRestore == "failed to restore"
ErrInvalidPVSpec == "invalid PV spec"
ErrInvalidSource == "invalid VolumeSnapshotDataSource"
ErrTarExit == "exit status 2"
ErrRemove == "remove: no such file or directory"
ErrCloudRestore == "cloud restore failed"
ErrVolumeDelete == "volume delete failed"

----------------------------------------------------------------------------
(* Plugin registry *)

\* crdv1.GetSupportedVolumeFromPVSpec: the first populated variant, in a
\* fixed order of presence checks, or "" when none of them is populated
GetSupportedVolumeFromPVSpec(source) ==
    IF MapHas(source, hostPathPluginName) THEN hostPathPluginName
    ELSE IF MapHas(source, awsEbsPluginName) THEN awsEbsPluginName
    ELSE IF MapHas(source, gcePdPluginName) THEN gcePdPluginName
    ELSE IF MapHas(source, cinderPluginName) THEN cinderPluginName
    ELSE ""

\* a buildVolumePlugins that does not look at how InitCloudProvider ended
buildVolumePluginsUnchecked(flag, initOk) ==
    {hostPathPluginName} \cup
    (IF flag = "aws" THEN {"aws_ebs"} ELSE IF flag = "gce" THEN {"gce-pd"}
     ELSE IF flag = "openstack" THEN {"cinder"} ELSE {})

\* buildVolumePlugins: the keys of volumePlugins when it returns, for the
\* --cloudprovider flag and the outcome of cloudprovider.InitCloudProvider
\* (initOk: err == nil && cloud != nil)
buildVolumePlugins(flag, initOk) ==
    LET cloud == IF flag # "" /\ initOk
                 THEN (IF flag = awsProviderName THEN {awsEbsPluginName} ELSE {})
                      \cup (IF flag = gceProviderName THEN {gcePdPluginName} ELSE {})
                      \cup (IF flag = openstackProviderName THEN {cinderPluginName} ELSE {})
                 ELSE {}
    IN  cloud \cup {hostPathPluginName}

\* buildVolumePlugins for the way InitCloudProvider ended ("none": not called)
buildVolumePluginsOf(flag, init) == buildVolumePlugins(flag, init = "ok")

\* plugin, ok := volumePlugins[volumeType]
LookupPluginAlways(p, volumeType) == TRUE
LookupPlugin(p, volumeType) == volumeType \in volumePlugins[p]

\* volumePlugins after plugin, ok := volumePlugins[volumeType]: the lookup
\* of a key the map does not have adds no entry
PluginsAfterLookupInserting(p, volumeType) == volumePlugins[p] \cup {volumeType}
PluginsAfterLookup(p, volumeType) == volumePlugins[p]

----------------------------------------------------------------------------
(* Plugins.  What the environment decides in one call: whether tar         *)
(* succeeds, the uuid drawn, and what a cloud plugin returns.              *)

NilSource == [isNil |-> TRUE, source |-> {}]
Source(s) == [isNil |-> FALSE, source |-> s]

PluginLabels == {{}, {<<"zone", "z1">>, <<provisionerIDAnn, "intruder">>}}

Envs == [tarOk : BOOLEAN, uuid : UUIDs, cloudSrcNil : BOOLEAN,
         cloudLabels : PluginLabels, cloudErr : {"", ErrCloudRestore},
         deleteErr : {"", ErrVolumeDelete}]

\* an environment when no plugin is invoked: nothing is decided
NoEnv == [tarOk |-> TRUE, uuid |-> "u1", cloudSrcNil |-> TRUE, cloudLabels |-> {},
          cloudErr |-> "", deleteErr |-> ""]

\* the environments that differ in what a plugin method can observe of them
HostPathRestoreEnvs == {[NoEnv EXCEPT !.tarOk = t, !.uuid = u] : t \in BOOLEAN, u \in UUIDs}
CloudRestoreEnvs == {e \in Envs : /\ e.tarOk /\ e.uuid = "u1" /\ e.deleteErr = ""
                                  /\ (e.cloudSrcNil => e.cloudLabels = {})}
VolumeDeleteEnvs == {[NoEnv EXCEPT !.deleteErr = d] : d \in {"", ErrVolumeDelete}}

\* file := depot + string(uuid.NewUUID()) + ".tgz"
ArtifactFileFixed(u) == depot \o "snapshot" \o ".tgz"
ArtifactFile(u) == depot \o u \o ".tgz"

\* dir := restorePoint + string(uuid.NewUUID())
RestoreDir(u) == restorePoint \o u

\* spec == nil || spec.HostPath == nil, src == nil || src.HostPath == nil
NoHostPathNever(input) == FALSE
NoHostPath(input) == input.isNil \/ ~MapHas(input.source, hostPathPluginName)

\* snapshotData == nil || snapshotData.Spec.HostPath == nil; a nil
\* snapshotData is the record that is not found
NoHostPathData(snapshotData) ==
    NoHostPath([isNil |-> ~snapshotData.found, source |-> snapshotData.source])

\* spec.HostPath.Path, src.HostPath.Path, snapshotData.Spec.HostPath.Path
HostPathOf(source) ==
    IF MapHas(source, hostPathPluginName) THEN MapGet(source, hostPathPluginName) ELSE ""

\* hostPathPlugin.SnapshotRestore
hostPathSnapshotRestore(snapshotData, env) ==
    IF NoHostPathData(snapshotData)
    THEN [pvSrc |-> NilSource, labels |-> {}, err |-> Err(ErrHostPathSpec)]
    ELSE IF ~env.tarOk
    THEN [pvSrc |-> NilSource, labels |-> {}, err |-> Err(ErrHostPathRestore)]
    ELSE [pvSrc |-> Source({<<hostPathPluginName, RestoreDir(env.uuid)>>}),
          labels |-> {}, err |-> NoError]

\* SnapshotRestore of a cloud plugin: any (VolumeSource, labels, error)
cloudSnapshotRestore(volumeType, env) ==
    [pvSrc |-> IF env.cloudSrcNil THEN NilSource ELSE Source({<<volumeType, "vol-1">>}),
     labels |-> env.cloudLabels,
     err |-> IF env.cloudErr = "" THEN NoError ELSE Err(env.cloudErr)]

\* plugin.SnapshotRestore, dispatched on the registered plugin
pluginSnapshotRestore(volumeType, snapshotData, env) ==
    IF volumeType = hostPathPluginName
    THEN hostPathSnapshotRestore(snapshotData, env)
    ELSE cloudSnapshotRestore(volumeType, env)

\* plugin.VolumeDelete: succeeds or fails with the plugin's own error
pluginVolumeDelete(volumeType, volume, env) ==
    IF env.deleteErr = "" THEN NoError ELSE Err(env.deleteErr)

----------------------------------------------------------------------------
(* Record store accessors.  The claims and the VolumeSnapshots are in one   *)
(* namespace, the VolumeSnapshotData in the default one.                   *)

GetSnapshot(name) == IF name \in DOMAIN snapshots THEN snapshots[name] ELSE NoSnapshot

GetSnapshotData(name) ==
    IF name \in DOMAIN snapshotDatas THEN snapshotDatas[name] ELSE NoSnapshotData

GetPersistentVolume(name) ==
    IF name \in DOMAIN persistentVolumes THEN persistentVolumes[name] ELSE NoPV

----------------------------------------------------------------------------
(* The provisioner *)

\* what a call read from the API server, in order
ReadSnapshot(name) == <<"VolumeSnapshot", name>>
ReadSnapshotData(name) == <<"VolumeSnapshotData", name>>
ReadPersistentVolume(name) == <<"PersistentVolume", name>>

NoReturn == [pvSrc |-> NilSource, labels |-> {}, err |-> NoError]

\* snapshotProvisioner.getPVFromVolumeSnapshotDataSpec
getPVFromVolumeSnapshotDataSpec(snapshotDataSpec) ==
    LET ref == snapshotDataSpec.PersistentVolumeRef
        pv == GetPersistentVolume(ref.Name)
    IN  IF ref.isNil
        THEN [pv |-> NoPV, err |-> Err(ErrNoPVRef), fetched |-> <<>>]
        ELSE IF ref.Name = ""
        THEN [pv |-> NoPV, err |-> Err(ErrNoPVName), fetched |-> <<>>]
        ELSE IF ~pv.found
        THEN [pv |-> NoPV, err |-> Err(ErrGetPV),
              fetched |-> <<ReadPersistentVolume(ref.Name)>>]
        ELSE [pv |-> pv, err |-> NoError, fetched |-> <<ReadPersistentVolume(ref.Name)>>]

\* snapshotProvisioner.snapshotRestore.  panicked: the call dereferenced the
\* nil pvSrc in its log statement; restored: the tags of the plugins whose
\* SnapshotRestore it invoked; pluginRet: what the plugin returned; plugins:
\* the keys of volumePlugins when it returns.
snapshotRestore(p, snapshotData, options, env) ==
    LET got == getPVFromVolumeSnapshotDataSpec(snapshotData)
        volumeType == GetSupportedVolumeFromPVSpec(got.pv.source)
        ret == pluginSnapshotRestore(volumeType, snapshotData, env)
        none == [pvSrc |-> NilSource, labels |-> {}, err |-> NoError, panicked |-> FALSE,
                 fetched |-> got.fetched, restored |-> <<>>, pluginRet |-> NoReturn,
                 plugins |-> volumePlugins[p]]
        looked == [none EXCEPT !.plugins = PluginsAfterLookup(p, volumeType)]
        called == [looked EXCEPT !.restored = <<volumeType>>, !.pluginRet = ret]
    IN  IF got.err # NoError THEN [none EXCEPT !.err = got.err]
        ELSE IF volumeType = "" THEN [none EXCEPT !.err = Err(ErrUnsupportedType)]
        ELSE IF ~LookupPlugin(p, volumeType) THEN [looked EXCEPT !.err = Err(ErrNoPlugin)]
        ELSE IF ret.err # NoError /\ ~got.pv.found THEN called
        ELSE IF ret.pvSrc.isNil THEN [called EXCEPT !.panicked = TRUE]
        ELSE [called EXCEPT !.pvSrc = ret.pvSrc, !.labels = ret.labels]

\* len(snapshot.Spec.SnapshotDataName) == 0
NotBoundNever(snapshot) == FALSE
NotBound(snapshot) == snapshot.SnapshotDataName = ""

\* the PersistentVolume literal of Provision and the merge of the labels
AssemblePVFixedCapacity(p, options, pvSrc, labels) ==
    [Name |-> options.PVName,
     Annotations |-> {<<provisionerIDAnn, identity(p)>>},
     Labels |-> labels,
     PersistentVolumeReclaimPolicy |-> options.PersistentVolumeReclaimPolicy,
     AccessModes |-> options.AccessModes,
     Capacity |-> 1,
     source |-> pvSrc.source]
AssemblePVUnsigned(p, options, pvSrc, labels) ==
    [Name |-> options.PVName,
     Annotations |-> {},
     Labels |-> IF labels # {} THEN MapMerge({}, labels) ELSE {},
     PersistentVolumeReclaimPolicy |-> options.PersistentVolumeReclaimPolicy,
     AccessModes |-> options.AccessModes,
     Capacity |-> options.Storage,
     source |-> pvSrc.source]
AssemblePV(p, options, pvSrc, labels) ==
    [Name |-> options.PVName,
     Annotations |-> {<<provisionerIDAnn, identity(p)>>},
     Labels |-> IF labels # {} THEN MapMerge({}, labels) ELSE {},
     PersistentVolumeReclaimPolicy |-> options.PersistentVolumeReclaimPolicy,
     AccessModes |-> options.AccessModes,
     Capacity |-> options.Storage,
     source |-> pvSrc.source]

\* options.PVC.Spec.Selector != nil
HasSelectorNever(options) == FALSE
HasSelector(options) == options.Selector

\* snapshotProvisioner.Provision: what one call reads, invokes and returns
ProvisionCall(p, options, env) ==
    LET snapshotName == MapGet(options.Annotations, SnapshotPVCAnnotation)
        snapshot == GetSnapshot(snapshotName)
        snapshotData == GetSnapshotData(snapshot.SnapshotDataName)
        r == snapshotRestore(p, snapshotData, options, env)
        f1 == <<ReadSnapshot(snapshotName)>>
        f2 == Append(f1, ReadSnapshotData(snapshot.SnapshotDataName))
        fail(e, f) == [err |-> e, pv |-> NoVolume, panicked |-> FALSE, fetched |-> f,
                       restored |-> <<>>, pluginRet |-> NoReturn,
                       snapshotData |-> NoSnapshotData, plugins |-> volumePlugins[p]]
        after == [fail(NoError, f2 \o r.fetched) EXCEPT !.restored = r.restored,
                     !.pluginRet = r.pluginRet, !.snapshotData = snapshotData,
                     !.plugins = r.plugins]
    IN  IF HasSelector(options) THEN fail(Err(ErrSelector), <<>>)
        ELSE IF ~MapHas(options.Annotations, SnapshotPVCAnnotation)
        THEN fail(Err(ErrNoAnnotation), <<>>)
        ELSE IF ~snapshot.found THEN fail(Err(ErrGetSnapshot), f1)
        ELSE IF NotBound(snapshot) THEN fail(Err(ErrNotBound), f1)
        ELSE IF ~snapshotData.found THEN fail(Err(ErrGetSnapshotData), f2)
        ELSE IF r.panicked THEN [after EXCEPT !.panicked = TRUE]
        ELSE IF r.err # NoError \/ r.pvSrc.isNil
        THEN [after EXCEPT !.err = Wrap(ErrCreatePV, r.err)]
        ELSE [after EXCEPT !.pv = AssemblePV(p, options, r.pvSrc, r.labels)]

\* ann, ok := volume.Annotations[provisionerIDAnn]
HasIdentityAnnAlways(volume) == TRUE
HasIdentityAnn(volume) == MapHas(volume.Annotations, provisionerIDAnn)

IdentityAnn(volume) ==
    IF MapHas(volume.Annotations, provisionerIDAnn)
    THEN MapGet(volume.Annotations, provisionerIDAnn) ELSE ""

\* ann != p.identity
IdentityDiffersNever(ann, id) == FALSE
IdentityDiffers(ann, id) == ann # id

\* Delete as it was before it deleted: the two annotation checks, then nil
DeleteCallChecksOnly(p, volume, env) ==
    [err |-> IF ~HasIdentityAnn(volume) THEN Err(ErrNoIdentity)
             ELSE IF IdentityDiffers(IdentityAnn(volume), identity(p)) THEN Err(IgnoredError)
             ELSE NoError,
     deleted |-> <<>>, deleteArg |-> <<>>, deleteRet |-> NoError,
     plugins |-> volumePlugins[p]]

\* snapshotProvisioner.Delete: deleted are the tags of the plugins whose
\* VolumeDelete the call invoked, deleteArg the PVs it invoked them on,
\* deleteRet what the last of them returned
DeleteCall(p, volume, env) ==
    LET volumeType == GetSupportedVolumeFromPVSpec(volume.source)
        ret(e) == [err |-> e, deleted |-> <<>>, deleteArg |-> <<>>, deleteRet |-> NoError,
                   plugins |-> volumePlugins[p]]
        looked(e) == [ret(e) EXCEPT !.plugins = PluginsAfterLookup(p, volumeType)]
        pluginErr == pluginVolumeDelete(volumeType, volume, env)
    IN  IF ~HasIdentityAnn(volume) THEN ret(Err(ErrNoIdentity))
        ELSE IF IdentityDiffers(IdentityAnn(volume), identity(p)) THEN ret(Err(IgnoredError))
        ELSE IF volumeType = "" THEN ret(Err(ErrUnsupportedType))
        ELSE IF ~LookupPlugin(p, volumeType) THEN looked(Err(ErrNoPlugin))
        ELSE [looked(pluginErr) EXCEPT !.deleted = <<volumeType>>, !.deleteArg = <<volume>>,
                                       !.deleteRet = pluginErr]

----------------------------------------------------------------------------
(* The host of the hostPath plugin.  A path is a string; a tree is the set  *)
(* of the entries below a directory, each <<relative path, content>> with   *)
(* the relative path a sequence of names and the content "dir" or the       *)
(* bytes of a file; an archive is the set of its members, each              *)
(* <<member name, content>>.                                                *)

\* the workers that call the plugin's methods concurrently
Workers == {"w1", "w2"}

\* how many calls of the plugin's methods one behaviour has
MaxPluginCalls == 3

\* the values uuid.NewUUID draws from: one for every call
UUIDPool == {"u" \o ToString(i) : i \in 1..MaxPluginCalls}

EmptyMap == [x \in {} |-> x]

\* a worker that is in no call
NoPluginCall == [op |-> "", input |-> NilSource, pc |-> "", uuid |-> "", effects |-> <<>>]

\* no plugin call is modelled: the host is left out
HostIdle ==
    /\ dirs = EmptyMap
    /\ files = EmptyMap
    /\ issued = {}
    /\ calls = [w \in Workers |-> NoPluginCall]
    /\ results = <<>>

\* the source paths of the volumes, as the names they are made of
SourcePaths == {<<"data">>}

RECURSIVE PathString(_)
PathString(q) == IF q = <<>> THEN "" ELSE "/" \o Head(q) \o PathString(Tail(q))

\* the trees a volume's directory holds
Trees == {{<<<<"f">>, "x">>},
          {<<<<"f">>, "x">>, <<<<"d">>, "dir">>, <<<<"d", "g">>, "y">>}}

\* the name tar gives the member for a path: the path's names, without the
\* leading "/"
MemberName(path) == CHOOSE q \in SourcePaths : PathString(q) = path

\* tar czvf file path: the directory itself and every entry below it, named
\* by the path
TarCreate(path, tree) ==
    {<<MemberName(path), "dir">>} \cup {<<MemberName(path) \o e[1], e[2]>> : e \in tree}

\* the directories tar makes for the members it extracts
Parents(archive) ==
    UNION {{<<SubSeq(m[1], 1, k), "dir">> : k \in 1..(Len(m[1]) - 1)} : m \in archive}

\* tar xzvf file -C dir: every member is written below dir under its name
TarExtract(archive, tree) == tree \cup archive \cup Parents(archive)

\* uuid.NewUUID(): a value it has not returned before.  The values are
\* interchangeable (nothing looks into one), so the draws are made in one
\* order: u1, u2, ...
NewUUID == IF UUIDPool \subseteq issued THEN {}
           ELSE {"u" \o ToString(Cardinality(issued) + 1)}

----------------------------------------------------------------------------
(* Specification *)

NoCall == [op |-> "", proc |-> "", options |-> NoOptions, volume |-> NoVolume,
           err |-> NoError, pv |-> NoVolume, panicked |-> FALSE, fetched |-> <<>>,
           restored |-> <<>>, deleted |-> <<>>, pluginRet |-> NoReturn,
           snapshotData |-> NoSnapshotData, deleteArg |-> <<>>, deleteRet |-> NoError]

\* The stores are told apart only by records a call can reach: Provision
\* reads a VolumeSnapshotData through the VolumeSnapshot that names it and a
\* PV through the PersistentVolumeRef that names it, so a record nothing
\* names is left out.
Referenced(ss, ds, pvs) ==
    /\ \A d \in DataNames :
         ds[d].found => \E n \in SnapshotNames : ss[n].found /\ ss[n].SnapshotDataName = d
    /\ \A v \in PVNames :
         pvs[v].found => \E d \in DataNames :
            /\ ds[d].found /\ ~ds[d].PersistentVolumeRef.isNil
            /\ ds[d].PersistentVolumeRef.Name = v

\* The processes are running (main has reached pc.Run).  A process whose
\* cloud provider failed to initialize has the registry of one started
\* without --cloudprovider, and no call reads the flag: the registries are
\* those of the flags with a successful initialization.
Init ==
    /\ snapshots \in [SnapshotNames -> Snapshots]
    /\ snapshotDatas \in [DataNames -> SnapshotDatas]
    /\ persistentVolumes \in [PVNames -> StoredPVs]
    /\ Referenced(snapshots, snapshotDatas, persistentVolumes)
    /\ cloudProvider \in [Procs -> CloudProviderFlags]
    /\ cloudInit = [p \in Procs |-> IF cloudProvider[p] = "" THEN "none" ELSE "ok"]
    /\ volumePlugins = [p \in Procs |-> buildVolumePluginsOf(cloudProvider[p], cloudInit[p])]
    /\ pc = [p \in Procs |-> "running"]
    /\ provisioned = {}
    /\ last = NoCall
    /\ HostIdle

\* what the environment can decide in the call Provision(options) of p: the
\* outcomes of the plugin whose SnapshotRestore the call invokes, if any
RestoreEnvs(p, options) ==
    LET r == ProvisionCall(p, options, NoEnv)
    IN  IF r.restored = <<>> THEN {NoEnv}
        ELSE IF r.restored[1] = hostPathPluginName THEN HostPathRestoreEnvs
        ELSE CloudRestoreEnvs

\* the controller calls Provision of process p
Provision(p) ==
    /\ \E options \in VolumeOptions : \E env \in RestoreEnvs(p, options) :
       \E r \in {ProvisionCall(p, options, env)} :
         LET made == IF r.pv = NoVolume THEN {} ELSE {[pv |-> r.pv, by |-> p]}
         IN  /\ Cardinality(provisioned \cup made) <= MaxVolumes
             /\ provisioned' = provisioned \cup made
             /\ last' = [NoCall EXCEPT !.op = "Provision", !.proc = p,
                            !.options = options, !.err = r.err, !.pv = r.pv,
                            !.panicked = r.panicked, !.fetched = r.fetched,
                            !.restored = r.restored, !.pluginRet = r.pluginRet,
                            !.snapshotData = r.snapshotData]
             /\ volumePlugins' = [volumePlugins EXCEPT ![p] = r.plugins]
    /\ UNCHANGED <<snapshots, snapshotDatas, persistentVolumes>>
    /\ UNCHANGED <<mainVars, hostVars>>

\* what the environment can decide in the call Delete(volume) of p: the
\* outcome of the plugin whose VolumeDelete the call invokes, if any
DeleteEnvs(p, volume) ==
    IF DeleteCall(p, volume, NoEnv).deleted = <<>> THEN {NoEnv} ELSE VolumeDeleteEnvs

\* the controller calls Delete of process p on a PV of the cluster
Delete(p) ==
    /\ \E volume \in ExternalVolumes \cup {v.pv : v \in provisioned} :
       \E env \in DeleteEnvs(p, volume) :
         \E r \in {DeleteCall(p, volume, env)} :
             /\ last' = [NoCall EXCEPT !.op = "Delete", !.proc = p, !.volume = volume,
                            !.err = r.err, !.deleted = r.deleted,
                            !.deleteArg = r.deleteArg, !.deleteRet = r.deleteRet]
             /\ volumePlugins' = [volumePlugins EXCEPT ![p] = r.plugins]
    /\ UNCHANGED <<snapshots, snapshotDatas, persistentVolumes, provisioned>>
    /\ UNCHANGED <<mainVars, hostVars>>

Next == \E p \in Procs : Provision(p) \/ Delete(p)

Spec == Init /\ [][Next]_vars

----------------------------------------------------------------------------
(* Startup.  main from its first statement to pc.Run, for every            *)
(* --cloudprovider value, and Delete of a running process on any PV.       *)

\* the PVs Delete can be handed: with or without an identity annotation,
\* with a source of any kind
AnyVolumes ==
    {[NoVolume EXCEPT !.Name = "ext", !.Annotations = a, !.source = s] :
        a \in {{}} \cup {{<<provisionerIDAnn, identity(p)>>} : p \in Procs},
        s \in {{}, {<<hostPathPluginName, "/data">>}, {<<awsEbsPluginName, "vol-0">>},
               {<<gcePdPluginName, "disk-0">>}, {<<"nfs", "srv:/x">>}}}

\* the processes are at the first statement of main; volumePlugins is the
\* empty map its declaration makes
InitStartup ==
    /\ snapshots = [n \in SnapshotNames |-> NoSnapshot]
    /\ snapshotDatas = [d \in DataNames |-> NoSnapshotData]
    /\ persistentVolumes = [v \in PVNames |-> NoPV]
    /\ cloudProvider \in [Procs -> StartupFlags]
    /\ cloudInit = [p \in Procs |-> "none"]
    /\ volumePlugins = [p \in Procs |-> {}]
    /\ pc = [p \in Procs |-> "main"]
    /\ provisioned = {}
    /\ last = NoCall
    /\ HostIdle

\* main up to the server version: a config, clientset or discovery error
\* ends the process in glog.Fatalf
Configure(p) ==
    /\ pc[p] = "main"
    /\ \E ok \in BOOLEAN :
         pc' = [pc EXCEPT ![p] = IF ok THEN "configured" ELSE "fatalConfig"]
    /\ UNCHANGED <<provVars, cloudProvider, cloudInit, hostVars>>

\* main: buildVolumePlugins().  InitCloudProvider is called only with a
\* non-empty flag; however it ends, buildVolumePlugins returns.
BuildVolumePlugins(p) ==
    /\ pc[p] = "configured"
    /\ \E init \in (IF cloudProvider[p] = "" THEN {"none"} ELSE {"ok", "failed"}) :
         /\ cloudInit' = [cloudInit EXCEPT ![p] = init]
         /\ volumePlugins' = [volumePlugins EXCEPT
                                 ![p] = buildVolumePluginsOf(cloudProvider[p], init)]
    /\ pc' = [pc EXCEPT ![p] = "built"]
    /\ UNCHANGED <<snapshots, snapshotDatas, persistentVolumes, provisioned, last,
                   cloudProvider, hostVars>>

\* main from the CRD client to pc.Run: a failure to make the CRD client ends
\* the process in glog.Fatalf
Run(p) ==
    /\ pc[p] = "built"
    /\ \E ok \in BOOLEAN :
         pc' = [pc EXCEPT ![p] = IF ok THEN "running" ELSE "fatalClient"]
    /\ UNCHANGED <<provVars, cloudProvider, cloudInit, hostVars>>

\* the controller calls Delete of the running process p on a PV
DeleteAny(p) ==
    /\ pc[p] = "running"
    /\ \E volume \in AnyVolumes : \E env \in DeleteEnvs(p, volume) :
         \E r \in {DeleteCall(p, volume, env)} :
             /\ last' = [NoCall EXCEPT !.op = "Delete", !.proc = p, !.volume = volume,
                            !.err = r.err, !.deleted = r.deleted,
                            !.deleteArg = r.deleteArg, !.deleteRet = r.deleteRet]
             /\ volumePlugins' = [volumePlugins EXCEPT ![p] = r.plugins]
    /\ UNCHANGED <<snapshots, snapshotDatas, persistentVolumes, provisioned>>
    /\ UNCHANGED <<mainVars, hostVars>>

NextStartup ==
    \E p \in Procs : Configure(p) \/ BuildVolumePlugins(p) \/ Run(p) \/ DeleteAny(p)

SpecStartup == InitStartup /\ [][NextStartup]_vars

----------------------------------------------------------------------------
(* The hostPath plugin on its host.  Workers call SnapshotCreate,          *)
(* SnapshotDelete and SnapshotRestore concurrently; a call is a sequence   *)
(* of steps, one for every effect it has on the host.                      *)

\* a VolumeSnapshotData pointer from the source it holds
DataOf(input) ==
    IF input.isNil THEN NoSnapshotData
    ELSE [found |-> TRUE, source |-> input.source,
          PersistentVolumeRef |-> [isNil |-> TRUE, Name |-> ""]]

\* the PV specs SnapshotCreate is called with: nil, one of another plugin,
\* a hostPath of a directory that does not exist, a hostPath of a volume
CreateInputs ==
    {NilSource, Source({<<awsEbsPluginName, "vol-0">>}),
     Source({<<hostPathPluginName, "/gone">>})}
    \cup {Source({<<hostPathPluginName, PathString(q)>>}) : q \in SourcePaths}

\* the artifacts SnapshotDelete and SnapshotRestore are called with: nil,
\* one of another plugin, a hostPath artifact that exists or does not
ArtifactInputs ==
    {NilSource, Source({AwsArtifact})}
    \cup {Source({<<hostPathPluginName, f>>}) : f \in DOMAIN files \cup {"/tmp/abc.tgz"}}

InitHostPath ==
    /\ snapshots = [n \in SnapshotNames |-> NoSnapshot]
    /\ snapshotDatas = [d \in DataNames |-> NoSnapshotData]
    /\ persistentVolumes = [v \in PVNames |-> NoPV]
    /\ cloudProvider = [p \in Procs |-> ""]
    /\ cloudInit = [p \in Procs |-> "none"]
    /\ volumePlugins = [p \in Procs |-> buildVolumePluginsOf("", "none")]
    /\ pc = [p \in Procs |-> "running"]
    /\ provisioned = {}
    /\ last = NoCall
    /\ \E t \in Trees : dirs = [d \in {PathString(q) : q \in SourcePaths} |-> t]
    /\ files \in {EmptyMap,
                  [f \in {"/tmp/abc.tgz"} |-> TarCreate("/data", {<<<<"f">>, "old">>})]}
    /\ issued = {}
    /\ calls = [w \in Workers |-> NoPluginCall]
    /\ results = <<>>

\* the calls that have not returned
Active == {w \in Workers : calls[w].op # ""}

\* a worker calls a method of the plugin
CallPlugin(w) ==
    /\ calls[w].op = ""
    /\ Len(results) + Cardinality(Active) < MaxPluginCalls
    /\ \E op \in {"SnapshotCreate", "SnapshotDelete", "SnapshotRestore"} :
       \E input \in (IF op = "SnapshotCreate" THEN CreateInputs ELSE ArtifactInputs) :
          calls' = [calls EXCEPT ![w] = [NoPluginCall EXCEPT !.op = op, !.input = input,
                                                            !.pc = "check"]]
    /\ UNCHANGED <<dirs, files, issued, results, provVars, mainVars>>

\* the call c of worker w returns (src, err)
Return(w, c, src, err) ==
    /\ results' = Append(results, [op |-> c.op, input |-> c.input, uuid |-> c.uuid,
                                   effects |-> c.effects, src |-> src, err |-> err])
    /\ calls' = [calls EXCEPT ![w] = NoPluginCall]

\* the step of call c of worker w that draws a uuid and goes on to `to`
Draw(w, c, to) ==
    \E u \in NewUUID :
        /\ issued' = issued \cup {u}
        /\ calls' = [calls EXCEPT ![w] = [c EXCEPT !.uuid = u, !.pc = to]]
        /\ UNCHANGED results

\* SnapshotCreate up to the file name
SnapshotCreateCheck(w) ==
    /\ calls[w].op = "SnapshotCreate" /\ calls[w].pc = "check"
    /\ IF NoHostPath(calls[w].input)
       THEN Return(w, calls[w], NilSource, Err(ErrInvalidPVSpec)) /\ UNCHANGED issued
       ELSE Draw(w, calls[w], "tar")
    /\ UNCHANGED <<dirs, files, provVars, mainVars>>

\* SnapshotCreate: tar czvf file path, and the return of res with tar's
\* exit status.  tar makes the archive file also when the path is missing.
SnapshotCreateTar(w) ==
    LET c == calls[w]
        path == HostPathOf(c.input.source)
        file == ArtifactFile(c.uuid)
        ok == path \in DOMAIN dirs
        ran == [c EXCEPT !.effects = Append(@, <<"tar czvf", file>>)]
    IN  /\ c.op = "SnapshotCreate" /\ c.pc = "tar"
        /\ files' = [f \in DOMAIN files \cup {file} |->
                        IF f # file THEN files[f]
                        ELSE IF ok THEN TarCreate(path, dirs[path]) ELSE {}]
        /\ Return(w, ran, Source({<<hostPathPluginName, file>>}),
                  IF ok THEN NoError ELSE Err(ErrTarExit))
        /\ UNCHANGED <<dirs, issued, provVars, mainVars>>

\* SnapshotDelete up to os.Remove
SnapshotDeleteCheck(w) ==
    /\ calls[w].op = "SnapshotDelete" /\ calls[w].pc = "check"
    /\ IF NoHostPath(calls[w].input)
       THEN Return(w, calls[w], NilSource, Err(ErrInvalidSource))
       ELSE /\ calls' = [calls EXCEPT ![w].pc = "remove"]
            /\ UNCHANGED results
    /\ UNCHANGED <<dirs, files, issued, provVars, mainVars>>

\* SnapshotDelete: os.Remove(path)
SnapshotDeleteRemove(w) ==
    LET c == calls[w]
        path == HostPathOf(c.input.source)
        ok == path \in DOMAIN files
        ran == [c EXCEPT !.effects = Append(@, <<"remove", path>>)]
    IN  /\ c.op = "SnapshotDelete" /\ c.pc = "remove"
        /\ files' = [f \in DOMAIN files \ {path} |-> files[f]]
        /\ Return(w, ran, NilSource, IF ok THEN NoError ELSE Err(ErrRemove))
        /\ UNCHANGED <<dirs, issued, provVars, mainVars>>

\* SnapshotRestore up to the directory name
SnapshotRestoreCheck(w) ==
    /\ calls[w].op = "SnapshotRestore" /\ calls[w].pc = "check"
    /\ IF NoHostPathData(DataOf(calls[w].input))
       THEN /\ \E r \in {hostPathSnapshotRestore(DataOf(calls[w].input), NoEnv)} :
                 Return(w, calls[w], r.pvSrc, r.err)
            /\ UNCHANGED issued
       ELSE Draw(w, calls[w], "mkdir")
    /\ UNCHANGED <<dirs, files, provVars, mainVars>>

\* SnapshotRestore: os.MkdirAll(dir, 0750), its error ignored
SnapshotRestoreMkdir(w) ==
    LET c == calls[w]
        dir == RestoreDir(c.uuid)
    IN  /\ c.op = "SnapshotRestore" /\ c.pc = "mkdir"
        /\ dirs' = [d \in DOMAIN dirs \cup {dir} |-> IF d \in DOMAIN dirs THEN dirs[d] ELSE {}]
        /\ calls' = [calls EXCEPT ![w] = [c EXCEPT !.pc = "tar",
                                             !.effects = Append(@, <<"mkdir", dir>>)]]
        /\ UNCHANGED <<files, issued, results, provVars, mainVars>>

\* SnapshotRestore: tar xzvf snapId -C dir, and the return
SnapshotRestoreTar(w) ==
    LET c == calls[w]
        snapId == HostPathOf(c.input.source)
        dir == RestoreDir(c.uuid)
        ok == snapId \in DOMAIN files
        ran == [c EXCEPT !.effects = Append(@, <<"tar xzvf", snapId>>)]
        r == hostPathSnapshotRestore(DataOf(c.input), [NoEnv EXCEPT !.tarOk = ok, !.uuid = c.uuid])
    IN  /\ c.op = "SnapshotRestore" /\ c.pc = "tar"
        /\ dirs' = IF ok THEN [dirs EXCEPT ![dir] = TarExtract(files[snapId], @)] ELSE dirs
        /\ Return(w, ran, r.pvSrc, r.err)
        /\ UNCHANGED <<files, issued, provVars, mainVars>>

NextHostPath ==
    \E w \in Workers :
        \/ CallPlugin(w)
        \/ SnapshotCreateCheck(w) \/ SnapshotCreateTar(w)
        \/ SnapshotDeleteCheck(w) \/ SnapshotDeleteRemove(w)
        \/ SnapshotRestoreCheck(w) \/ SnapshotRestoreMkdir(w) \/ SnapshotRestoreTar(w)

SpecHostPath == InitHostPath /\ [][NextHostPath]_vars

----------------------------------------------------------------------------
(* The failure kinds of the design, read off the error a call returns.     *)
(* The code's errors are plain messages.  Every error snapshotRestore      *)
(* returns before it invokes a plugin is a failure to determine a          *)
(* supported volume type and counts as UnsupportedVolumeType, the reading  *)
(* most favourable to the code; an error of a plugin's VolumeDelete is a   *)
(* BackendFailure, as is a failure of tar or of os.Remove; the errors of   *)
(* the hostPath plugin's input checks are InvalidSpec.                     *)

Kind(err) ==
    IF err = NoError THEN ""
    ELSE IF err.msg = ErrSelector THEN "UnsupportedRequest"
    ELSE IF err.msg = ErrNoAnnotation THEN "MissingAnnotation"
    ELSE IF err.msg \in {ErrGetSnapshot, ErrGetSnapshotData} THEN "RecordNotFound"
    ELSE IF err.msg = ErrNotBound THEN "UnboundSnapshot"
    ELSE IF err.msg = ErrNoIdentity THEN "NotOwned"
    ELSE IF err.msg = IgnoredError THEN "Ignored"
    ELSE IF err.msg \in {ErrUnsupportedType, ErrNoPlugin} THEN "UnsupportedVolumeType"
    ELSE IF err.msg \in {ErrInvalidPVSpec, ErrInvalidSource, ErrHostPathSpec} THEN "InvalidSpec"
    ELSE IF err.msg = ErrCreatePV
    THEN (IF err.cause \in {ErrUnsupportedType, ErrNoPlugin, ErrNoPVRef, ErrNoPVName,
                             ErrGetPV}
          THEN "UnsupportedVolumeType"
          ELSE "RestoreFailed")
    ELSE "BackendFailure"

IsProvision == last.op = "Provision"
IsDelete == last.op = "Delete"

\* the value of the identity annotation of the PV Delete was called on
LastAnnotated == \E e \in last.volume.Annotations : e[1] = provisionerIDAnn
LastAnnotation == {e[2] : e \in {x \in last.volume.Annotations : x[1] = provisionerIDAnn}}

\* the last call was Delete on a PV whose type has a plugin in the caller's registry
LastDeletable ==
    \E t \in volumePlugins[last.proc] :
        /\ t = GetSupportedVolumeFromPVSpec(last.volume.source)
        /\ t # ""

----------------------------------------------------------------------------
(* Claims *)

\* C1: Delete by a provisioner whose identity differs from the PV's identity
\* annotation returns the IgnoredError (the skip outcome), never another
\* error or success, and invokes no plugin's VolumeDelete, whatever the type
\* of the PV and whatever plugins are registered.
C1_DeleteOfForeignVolumeIsIgnored ==
    (IsDelete /\ LastAnnotated /\ LastAnnotation # {identity(last.proc)})
        => /\ last.err = Err(IgnoredError)
           /\ Kind(last.err) = "Ignored"
           /\ last.deleted = <<>>

C1_Witness ==
    /\ IsDelete /\ last.proc = "B"
    /\ LastAnnotation = {"prov-A"}
    /\ LastDeletable
    /\ last.err = Err(IgnoredError)

\* C2: Delete on a PV without the identity annotation fails with the hard
\* "identity annotation not found" error (NotOwned), not with the skip
\* outcome and not with success, for every provisioner, and invokes no
\* plugin's VolumeDelete.
C2_DeleteOfUnannotatedVolumeIsNotOwned ==
    (IsDelete /\ ~LastAnnotated)
        => /\ last.err = Err(ErrNoIdentity)
           /\ Kind(last.err) = "NotOwned"
           /\ last.deleted = <<>>

C2_Witness ==
    /\ IsDelete /\ ~LastAnnotated /\ LastDeletable
    /\ last.err = Err(ErrNoIdentity)

\* C3: a provisioner invokes a plugin's VolumeDelete only on a PV that its
\* own Provision returned; a PV returned by another provisioner's Provision
\* is never deleted by it.
C3_DeletesOnlyOwnVolumes ==
    (IsDelete /\ last.deleted # <<>>)
        => /\ [pv |-> last.volume, by |-> last.proc] \in provisioned
           /\ \A v \in provisioned : v.pv = last.volume => v.by = last.proc

C3_Witness ==
    /\ IsDelete /\ last.deleted # <<>>
    /\ last.err = NoError
    /\ [pv |-> last.volume, by |-> last.proc] \in provisioned

\* C4: whenever the plugin's SnapshotRestore invoked by Provision returns an
\* error, Provision fails with "failed to create a PV from snapshot"
\* (RestoreFailed) carrying the plugin's error as its cause, and returns no
\* PV, whatever location the plugin returned along with the error.
C4_RestoreErrorFailsProvision ==
    (IsProvision /\ last.restored # <<>> /\ last.pluginRet.err # NoError)
        => /\ ~last.panicked
           /\ last.pv = NoVolume
           /\ last.err = [msg |-> ErrCreatePV, cause |-> last.pluginRet.err.msg]
           /\ Kind(last.err) = "RestoreFailed"

\* C5: every Provision or Delete call ends by returning either a PV or an
\* error to the caller (Delete: an error or success); no call panics, so no
\* process is ended by a call and it can be invoked again.
C5_EveryCallReturns ==
    /\ (IsProvision \/ IsDelete) => ~last.panicked
    /\ IsProvision => ((last.pv # NoVolume) # (last.err # NoError))

\* C6: when the claim's VolumeSnapshot resolves to a VolumeSnapshotData with
\* no populated source variant, Provision fails with UnsupportedVolumeType
\* and no plugin's SnapshotRestore is invoked.
C6_NoVariantIsUnsupportedVolumeType ==
    (IsProvision /\ last.snapshotData.found /\ last.snapshotData.source = {})
        => /\ Kind(last.err) = "UnsupportedVolumeType"
           /\ last.restored = <<>>
           /\ ~last.panicked

\* C7: the plugin whose SnapshotRestore Provision invokes is the one
\* registered under the tag of the populated source variant of the
\* VolumeSnapshotData, not under a tag taken from another record.
C7_PluginOfSnapshotDataVariant ==
    (IsProvision /\ last.restored # <<>> /\ Cardinality(last.snapshotData.source) = 1)
        => \A i \in 1..Len(last.restored) :
              \E e \in last.snapshotData.source : e[1] = last.restored[i]

\* The claim's annotation names a VolumeSnapshot
Names(options, n) == <<SnapshotPVCAnnotation, n>> \in options.Annotations

\* the type tag Provision determines for a VolumeSnapshotData: that of the PV
\* its PersistentVolumeRef names, "" when there is none
TypeTagOf(data) ==
    IF data.PersistentVolumeRef.isNil \/ data.PersistentVolumeRef.Name = ""
    THEN ""
    ELSE GetSupportedVolumeFromPVSpec(GetPersistentVolume(data.PersistentVolumeRef.Name).source)

\* one of the steps before the restore fails for the claim in this store:
\* selector present, annotation missing, VolumeSnapshot not found or not
\* bound, VolumeSnapshotData not found, no type tag, no plugin for the tag
EarlyStepFails(p, options) ==
    \/ options.Selector
    \/ \A n \in SnapshotNames : ~Names(options, n)
    \/ \E n \in SnapshotNames :
         /\ Names(options, n)
         /\ \/ ~GetSnapshot(n).found
            \/ GetSnapshot(n).SnapshotDataName = ""
            \/ ~GetSnapshotData(GetSnapshot(n).SnapshotDataName).found
            \/ TypeTagOf(GetSnapshotData(GetSnapshot(n).SnapshotDataName)) = ""
            \/ TypeTagOf(GetSnapshotData(GetSnapshot(n).SnapshotDataName))
                   \notin volumePlugins[p]

C9_VolumeAssembledFromClaimAndPlugin ==
    (IsProvision /\ last.pv # NoVolume)
        => /\ last.restored # <<>>
           /\ ~last.pluginRet.pvSrc.isNil
           /\ last.pv.source = last.pluginRet.pvSrc.source
           /\ last.pv.Capacity = last.options.Storage
           /\ last.pv.AccessModes = last.options.AccessModes
           /\ last.pv.PersistentVolumeReclaimPolicy = last.options.PersistentVolumeReclaimPolicy
           /\ last.pv.Name = last.options.PVName
           /\ last.pv.Annotations = {<<provisionerIDAnn, identity(last.proc)>>}
           /\ last.pluginRet.labels \subseteq last.pv.Labels

C9_Witness ==
    /\ IsProvision /\ last.pv # NoVolume
    /\ last.options.Storage = 2
    /\ last.options.PersistentVolumeReclaimPolicy = "Retain"
    /\ \E e \in last.pluginRet.labels : e[1] = provisionerIDAnn
    /\ last.proc = "B"

\* C10: when the VolumeSnapshot the claim names exists but names no
\* VolumeSnapshotData, a Provision call that reaches the lookup (the claim
\* has no selector) fails with UnboundSnapshot, having read no
\* VolumeSnapshotData and invoked no plugin.
C10_UnboundSnapshot ==
    \A n \in SnapshotNames :
        (/\ IsProvision /\ ~last.options.Selector /\ Names(last.options, n)
         /\ snapshots[n].found /\ snapshots[n].SnapshotDataName = "")
        => /\ Kind(last.err) = "UnboundSnapshot"
           /\ last.err = Err(ErrNotBound)
           /\ last.pv = NoVolume
           /\ \A i \in 1..Len(last.fetched) : last.fetched[i][1] = "VolumeSnapshot"
           /\ last.restored = <<>>

C10_Witness ==
    /\ IsProvision /\ last.err = Err(ErrNotBound)
    /\ last.fetched = <<ReadSnapshot("s1")>>

\* C11: Provision on a claim that has a selector fails with "claim Selector
\* is not supported" (UnsupportedRequest), having read no record from the
\* API server and invoked no plugin, whatever the claim's annotations and
\* whatever the store holds.
C11_SelectorIsRejectedFirst ==
    (IsProvision /\ last.options.Selector)
        => /\ last.err = Err(ErrSelector)
           /\ Kind(last.err) = "UnsupportedRequest"
           /\ last.pv = NoVolume
           /\ last.fetched = <<>>
           /\ last.restored = <<>>
           /\ ~last.panicked

\* a claim with a selector whose snapshot would otherwise be restored
C11_Witness ==
    /\ IsProvision /\ last.options.Selector
    /\ last.err = Err(ErrSelector)
    /\ \E env \in HostPathRestoreEnvs :
         ProvisionCall(last.proc, [last.options EXCEPT !.Selector = FALSE], env).pv # NoVolume

\* the tag of the cloud plugin buildVolumePlugins registers for a provider
CloudPluginOf(flag) ==
    IF flag = awsProviderName THEN awsEbsPluginName
    ELSE IF flag = gceProviderName THEN gcePdPluginName
    ELSE IF flag = openstackProviderName THEN cinderPluginName
    ELSE ""

Built(p) == pc[p] \in {"built", "running", "fatalClient"}

\* C12: once buildVolumePlugins has returned, the hostPath plugin is
\* registered whatever --cloudprovider is and however InitCloudProvider
\* ended; a cloud plugin is registered only under the tag of the configured
\* provider and only if InitCloudProvider succeeded; and a failed
\* InitCloudProvider leaves the process past buildVolumePlugins, with the
\* hostPath plugin alone, not ended by it.
C12_RegistryConstruction ==
    \A p \in Procs :
        /\ Built(p) =>
             /\ hostPathPluginName \in volumePlugins[p]
             /\ \A t \in volumePlugins[p] \ {hostPathPluginName} :
                    /\ cloudInit[p] = "ok"
                    /\ t = CloudPluginOf(cloudProvider[p])
        /\ cloudInit[p] = "failed" =>
             /\ Built(p)
             /\ volumePlugins[p] = {hostPathPluginName}

C12_Witness ==
    /\ cloudProvider["A"] = "gce" /\ cloudInit["A"] = "failed" /\ pc["A"] = "running"
    /\ volumePlugins["A"] = {hostPathPluginName}
    /\ cloudProvider["B"] = "openstack" /\ cloudInit["B"] = "ok" /\ pc["B"] = "running"
    /\ volumePlugins["B"] = {hostPathPluginName, cinderPluginName}

\* C15: when the claim's VolumeSnapshot resolves to a VolumeSnapshotData
\* with more than one populated source variant, Provision returns a failure
\* and no PV, and invokes no plugin's SnapshotRestore.
C15_SeveralVariantsFail ==
    (IsProvision /\ last.snapshotData.found /\ Cardinality(last.snapshotData.source) > 1)
        => /\ last.err # NoError
           /\ last.pv = NoVolume
           /\ last.restored = <<>>
           /\ ~last.panicked

\* the VolumeSnapshot the claim of the last call names, and its VolumeSnapshotData
LastSnapshotName == MapGet(last.options.Annotations, SnapshotPVCAnnotation)
LastSnapshot == GetSnapshot(LastSnapshotName)
LastData == GetSnapshotData(LastSnapshot.SnapshotDataName)

\* the last call failed with a failure of the kind, having read the records
\* and invoked no plugin
FailedWith(kind, fetched) ==
    /\ Kind(last.err) = kind
    /\ last.pv = NoVolume
    /\ ~last.panicked
    /\ last.restored = <<>>
    /\ Len(last.fetched) >= Len(fetched)
    /\ SubSeq(last.fetched, 1, Len(fetched)) = fetched
    /\ \A i \in 1..Len(last.fetched) :
          last.fetched[i][1] \in {"VolumeSnapshot", "VolumeSnapshotData"} => i <= Len(fetched)

\* C16: Provision makes its checks in the order selector, snapshot
\* annotation, VolumeSnapshot lookup, VolumeSnapshotData reference,
\* VolumeSnapshotData lookup, type tag, plugin lookup, restore.  The failure
\* it returns is the one of the first check that fails (UnsupportedRequest,
\* MissingAnnotation, RecordNotFound, UnboundSnapshot, RecordNotFound,
\* UnsupportedVolumeType, UnsupportedVolumeType, RestoreFailed) and nothing
\* of a later step is done: no later record is read, no plugin is invoked
\* unless every check before the restore passed.  The type tag is the one
\* Provision determines.
C16_ChecksInOrder ==
    IsProvision =>
        IF last.options.Selector THEN FailedWith("UnsupportedRequest", <<>>)
        ELSE IF ~MapHas(last.options.Annotations, SnapshotPVCAnnotation)
        THEN FailedWith("MissingAnnotation", <<>>)
        ELSE IF ~LastSnapshot.found
        THEN FailedWith("RecordNotFound", <<ReadSnapshot(LastSnapshotName)>>)
        ELSE IF LastSnapshot.SnapshotDataName = ""
        THEN FailedWith("UnboundSnapshot", <<ReadSnapshot(LastSnapshotName)>>)
        ELSE IF ~LastData.found
        THEN FailedWith("RecordNotFound", <<ReadSnapshot(LastSnapshotName),
                                            ReadSnapshotData(LastSnapshot.SnapshotDataName)>>)
        ELSE IF TypeTagOf(LastData) = ""
                \/ TypeTagOf(LastData) \notin volumePlugins[last.proc]
        THEN FailedWith("UnsupportedVolumeType",
                        <<ReadSnapshot(LastSnapshotName),
                          ReadSnapshotData(LastSnapshot.SnapshotDataName)>>)
        ELSE /\ last.restored = <<TypeTagOf(LastData)>>
             /\ ~last.panicked
             /\ IF last.pluginRet.err # NoError
                THEN Kind(last.err) = "RestoreFailed" /\ last.pv = NoVolume
                ELSE last.err = NoError /\ last.pv # NoVolume

\* the last call was Delete by the provisioner the PV's annotation names
LastOwn == IsDelete /\ LastAnnotation = {identity(last.proc)}

\* C17: Delete on a PV whose identity annotation is the provisioner's own
\* and whose type has a plugin in the registry invokes that plugin's
\* VolumeDelete once, on that PV, and returns what it returned: nil when it
\* returned nil, its error as it is when it failed.
C17_DeleteReturnsThePluginsResult ==
    (LastOwn /\ LastDeletable)
        => /\ last.deleted = <<GetSupportedVolumeFromPVSpec(last.volume.source)>>
           /\ last.deleteArg = <<last.volume>>
           /\ last.err = last.deleteRet
           /\ Kind(last.err) \in {"", "BackendFailure"}

\* the provisioner deletes a PV it provisioned and the plugin fails
C17_Witness ==
    /\ LastOwn /\ LastDeletable
    /\ [pv |-> last.volume, by |-> last.proc] \in provisioned
    /\ last.deleted # <<>>
    /\ last.err = Err(ErrVolumeDelete)

\* C18: Delete on a PV whose identity annotation is the provisioner's own
\* fails with UnsupportedVolumeType and invokes no plugin's VolumeDelete
\* when the PV's source has none of the supported types, and when its type
\* has no plugin in the provisioner's registry.
C18_DeleteOfUnsupportedVolume ==
    (LastOwn /\ ~LastDeletable)
        => /\ Kind(last.err) = "UnsupportedVolumeType"
           /\ last.err = Err(IF GetSupportedVolumeFromPVSpec(last.volume.source) = ""
                             THEN ErrUnsupportedType ELSE ErrNoPlugin)
           /\ last.deleted = <<>>
           /\ last.deleteArg = <<>>

\* a gce-pd PV of a provisioner started with --cloudprovider=gce whose
\* cloud provider failed to initialize
C18_Witness ==
    /\ LastOwn /\ ~LastDeletable
    /\ last.volume.source = {<<gcePdPluginName, "disk-0">>}
    /\ cloudProvider[last.proc] = "gce" /\ cloudInit[last.proc] = "failed"
    /\ last.err = Err(ErrNoPlugin)

\* the last call was Delete, by a provisioner, of a PV its own Provision returned
LastOfOwnProvision == IsDelete /\ [pv |-> last.volume, by |-> last.proc] \in provisioned

\* C21: a PV returned by a provisioner's Provision passes the ownership
\* check of the same provisioner: its Delete of that PV never returns
\* "identity annotation not found" (NotOwned) and never the IgnoredError
\* (the skip outcome); it goes on to the resolution of the type tag, so it
\* ends with one of the two type errors or with the plugin's result.
C21_OwnProvisionedVolumePassesTheOwnershipCheck ==
    LastOfOwnProvision
        => /\ last.err \notin {Err(ErrNoIdentity), Err(IgnoredError)}
           /\ Kind(last.err) \notin {"NotOwned", "Ignored"}
           /\ \/ last.err \in {Err(ErrUnsupportedType), Err(ErrNoPlugin)}
              \/ /\ last.deleted = <<GetSupportedVolumeFromPVSpec(last.volume.source)>>
                 /\ last.err = last.deleteRet

\* provisioner B's Delete of a PV of its own Provision reached the plugin
C21_Witness ==
    /\ LastOfOwnProvision /\ last.proc = "B"
    /\ last.volume.Annotations = {<<provisionerIDAnn, identity("B")>>}
    /\ last.deleteArg = <<last.volume>>
    /\ last.err = NoError

\* C19: no Provision or Delete call changes the plugin registry of any
\* process or any VolumeSnapshot or VolumeSnapshotData object: in every
\* behaviour of calls made after the registries were built, every step
\* leaves them as they were.
C19_RegistryAndRecordsAreOnlyRead ==
    [][/\ volumePlugins' = volumePlugins
       /\ snapshots' = snapshots
       /\ snapshotDatas' = snapshotDatas]_vars

\* a Delete that looked a plugin up and invoked it follows a Provision that
\* did; the registries are as buildVolumePlugins left them
C19_Witness ==
    /\ IsDelete /\ last.deleted = <<awsEbsPluginName>>
    /\ provisioned # {}
    /\ \A p \in Procs :
          volumePlugins[p] = buildVolumePluginsOf(cloudProvider[p], cloudInit[p])

\* the calls of one method that returned, each with its position in results
Returned(op) == {i \in 1..Len(results) : results[i].op = op}

\* the calls of a method that are past their draw of a uuid and have not returned
InFlight(op) == {w \in Workers : calls[w].op = op /\ calls[w].uuid # ""}

\* the input of a call is absent or has no hostPath variant
InputInvalid(input) == input.isNil \/ \A e \in input.source : e[1] # hostPathPluginName

\* the hostPath path a call was given is a volume's directory
OnVolume(input) == ~InputInvalid(input) /\ HostPathOf(input.source) \in DOMAIN dirs

\* C13: the names the hostPath plugin generates never collide.  Any two
\* SnapshotCreate calls on the same directory, however their steps
\* interleave, both return without error and return two different artifact
\* files; any two SnapshotRestore calls that return a directory return two
\* different ones; and calls that are in progress at the same time have
\* different names from each other and from those returned.
C13_GeneratedNamesAreDistinct ==
    /\ \A i, j \in Returned("SnapshotCreate") :
         (i # j /\ OnVolume(results[i].input) /\ results[i].input = results[j].input)
            => /\ results[i].err = NoError /\ results[j].err = NoError
               /\ ~results[i].src.isNil /\ ~results[j].src.isNil
               /\ results[i].src # results[j].src
    /\ \A i, j \in Returned("SnapshotRestore") :
         (i # j /\ ~results[i].src.isNil /\ ~results[j].src.isNil)
            => results[i].src # results[j].src
    /\ \A w, x \in InFlight("SnapshotCreate") :
         w # x => ArtifactFile(calls[w].uuid) # ArtifactFile(calls[x].uuid)
    /\ \A w \in InFlight("SnapshotCreate") : \A i \in Returned("SnapshotCreate") :
         results[i].src # Source({<<hostPathPluginName, ArtifactFile(calls[w].uuid)>>})
    /\ \A w, x \in InFlight("SnapshotRestore") :
         w # x => RestoreDir(calls[w].uuid) # RestoreDir(calls[x].uuid)
    /\ \A w \in InFlight("SnapshotRestore") : \A i \in Returned("SnapshotRestore") :
         results[i].src # Source({<<hostPathPluginName, RestoreDir(calls[w].uuid)>>})

\* two SnapshotCreate calls on /data returned whose steps interleaved: the
\* first to draw its name was the second to return
C13_Witness ==
    /\ Len(results) = 2
    /\ results[1].uuid = "u2" /\ results[2].uuid = "u1"
    /\ \A i \in {1, 2} : /\ results[i].op = "SnapshotCreate"
                         /\ results[i].input = Source({<<hostPathPluginName, "/data">>})
                         /\ results[i].err = NoError
    /\ results[1].src # results[2].src
    /\ {HostPathOf(results[1].src.source), HostPathOf(results[2].src.source)} \subseteq DOMAIN files

\* C14: when SnapshotRestore is applied to the artifact a SnapshotCreate of
\* a directory returned, the tree below the directory it returns is the
\* tree below the original directory.
C14_RestoreOfCreateIsTheTree ==
    \A i \in Returned("SnapshotCreate") : \A j \in Returned("SnapshotRestore") :
        (/\ i < j
         /\ results[i].err = NoError /\ results[j].err = NoError
         /\ results[j].input = results[i].src)
        => /\ ~results[j].src.isNil
           /\ HostPathOf(results[j].src.source) \in DOMAIN dirs
           /\ dirs[HostPathOf(results[j].src.source)]
                = dirs[HostPathOf(results[i].input.source)]

\* the error of a method's input check
InvalidInputError(op) ==
    IF op = "SnapshotCreate" THEN ErrInvalidPVSpec
    ELSE IF op = "SnapshotDelete" THEN ErrInvalidSource
    ELSE ErrHostPathSpec

\* C20: a SnapshotCreate, SnapshotDelete or SnapshotRestore of the hostPath
\* plugin whose input is nil or has no hostPath variant returns the error of
\* its input check (InvalidSpec) and nothing else, having drawn no name, run
\* no tar, made no directory and removed no file; no step of such a call
\* changes a file or a directory of the host.
C20_InvalidInputHasNoEffect ==
    /\ [](\A i \in 1..Len(results) :
            InputInvalid(results[i].input)
               => /\ results[i].err = Err(InvalidInputError(results[i].op))
                  /\ Kind(results[i].err) = "InvalidSpec"
                  /\ results[i].src.isNil
                  /\ results[i].effects = <<>>
                  /\ results[i].uuid = "")
    /\ [][\A w \in Workers :
            (calls[w].op # "" /\ InputInvalid(calls[w].input) /\ calls'[w] # calls[w])
               => /\ files' = files /\ dirs' = dirs /\ issued' = issued
                  /\ calls'[w] = NoPluginCall]_vars

\* one call of each method with an invalid input has returned its error
C20_Witness ==
    /\ Len(results) = 3
    /\ {results[i].op : i \in 1..3} = {"SnapshotCreate", "SnapshotDelete", "SnapshotRestore"}
    /\ \A i \in 1..3 : InputInvalid(results[i].input) /\ results[i].err # NoError
    /\ \E i \in 1..3 : results[i].input.isNil
    /\ \E i \in 1..3 : ~results[i].input.isNil

====
